---- MODULE Spec2Model ----
(***************************************************************************)
(* A model of the routing package's dispatcher (Mux): route registration,  *)
(* virtual hosts, the three middleware tiers, the pooled request context   *)
(* and the default HTTP error handler.                                     *)
(*                                                                         *)
(* A HandlerFunc is modelled by the sequence of frames a call of it runs   *)
(* through, outermost first: the middleware wrapped around it, then one    *)
(* leaf (a user handler, the NotFound / MethodNotAllowed handler, or one   *)
(* of the two closures of the Mux, which expand when they are called).     *)
(*                                                                         *)
(* Around the Mux the module models the start of the process by            *)
(* core.Bootstrap (configuration, database, plugins, the account service,  *)
(* Start), the session middleware Session.LoadAndSave, Mux.Reverse and the *)
(* methods of models.User.                                                 *)
(***************************************************************************)
EXTENDS Integers, Sequences, FiniteSets, TLC

VARIABLES
    premiddleware,  \* Mux.premiddleware: names of the middleware, in order
    middleware,     \* Mux.middleware
    maxParam,       \* *Mux.maxParam
    router,         \* Mux.router: the default router's entries
    routers,        \* Mux.routers: host -> entries
    routes,         \* Mux.router.routes: <<method, path>> -> Route
    Debug,          \* Mux.Debug
    pool,           \* Mux.pool: the ids of the pooled contexts
    ctxs,           \* every context allocated so far, by id
    reqs,           \* one ServeHTTP call per worker goroutine
    boot,           \* the process started by core.Bootstrap
    sess,           \* one request through Session.LoadAndSave
    user,           \* a models.User value
    ret,            \* the last call of a function on it, with its result
    Validator,      \* Mux.Validator is set
    users           \* the rows of the users table

muxVars == <<premiddleware, middleware, maxParam, router, routers, routes,
             Debug, pool, ctxs, reqs>>

\* The state outside the Mux.
appVars == <<boot, sess, user, ret, Validator, users>>

vars == <<muxVars, appVars>>

muxConfig == <<premiddleware, middleware, maxParam, router, routers, routes, Debug>>

(***************************************************************************)
(* Bounds of the model.                                                    *)
(***************************************************************************)
MaxPre == 2
MaxUse == 2
MaxRoutes == 4
MaxSpareContexts == 0

(***************************************************************************)
(* Status codes (net/http).                                                *)
(***************************************************************************)
StatusOK == 200
StatusNotFound == 404
StatusMethodNotAllowed == 405
StatusTooManyRequests == 429
StatusBadGateway == 502
StatusInternalServerError == 500

StatusText(code) ==
    CASE code = StatusNotFound -> "Not Found"
      [] code = StatusMethodNotAllowed -> "Method Not Allowed"
      [] code = StatusTooManyRequests -> "Too Many Requests"
      [] code = StatusBadGateway -> "Bad Gateway"
      [] code = StatusInternalServerError -> "Internal Server Error"
      [] OTHER -> "OK"

(***************************************************************************)
(* Errors.  kind is "nil", "http" (an HTTPError) or "plain" (any other     *)
(* error); internal is the wrapped error, one level deep.                  *)
(***************************************************************************)
NoInternal == [kind |-> "nil", code |-> 0, msg |-> ""]

Nil == [kind |-> "nil", code |-> 0, msg |-> "", internal |-> NoInternal]

NewHTTPError(code) ==
    [kind |-> "http", code |-> code, msg |-> StatusText(code), internal |-> NoInternal]

NewHTTPErrorMsg(code, message) ==
    [kind |-> "http", code |-> code, msg |-> message, internal |-> NoInternal]

PlainError(text) ==
    [kind |-> "plain", code |-> 0, msg |-> text, internal |-> NoInternal]

SetInternal(he, err) ==
    [he EXCEPT !.internal = [kind |-> err.kind, code |-> err.code, msg |-> err.msg]]

ErrNotFound == NewHTTPError(StatusNotFound)
ErrMethodNotAllowedAsNotFound == NewHTTPError(StatusNotFound)

ErrMethodNotAllowed == NewHTTPError(StatusMethodNotAllowed)
ErrTooManyRequests == NewHTTPError(StatusTooManyRequests)

\* err.Error(), as the sequence of the pieces fmt.Sprintf prints.
InnerErrorText(e) ==
    IF e.kind = "http"
    THEN <<"code=", ToString(e.code), "message=", e.msg>>
    ELSE <<e.msg>>

ErrorText(e) ==
    IF e.kind = "http"
    THEN IF e.internal.kind = "nil"
         THEN <<"code=", ToString(e.code), "message=", e.msg>>
         ELSE <<"code=", ToString(e.code), "message=", e.msg, "internal=">>
                  \o InnerErrorText(e.internal)
    ELSE <<e.msg>>

(***************************************************************************)
(* Handlers and middleware.                                                *)
(***************************************************************************)
Frame(kind, name, mw) == [kind |-> kind, name |-> name, mw |-> mw]

MwFrame(name) == Frame("mw", name, <<>>)

NotFoundHandler == <<Frame("notfound", "NotFoundHandler", <<>>)>>

MethodNotAllowedHandler == <<Frame("notallowed", "MethodNotAllowedHandler", <<>>)>>

UserHandler(name) == <<Frame("handler", name, <<>>)>>

\* The closure Mux.add hands to Router.Add: it wraps the handler in the
\* route-level middleware each time it is called.
RouteClosure(name, mw) == <<Frame("route", name, mw)>>

\* The closure ServeHTTP builds when pre-middleware is registered.
DispatchClosure == <<Frame("dispatch", "ServeHTTP.func1", <<>>)>>

RECURSIVE applyLoop(_, _, _)
applyLoop(h, mw, i) ==
    IF i >= 1 THEN applyLoop(<<MwFrame(mw[i])>> \o h, mw, i - 1) ELSE h

RECURSIVE applyLoopForward(_, _, _)
applyLoopForward(h, mw, i) ==
    IF i <= Len(mw) THEN applyLoopForward(<<MwFrame(mw[i])>> \o h, mw, i + 1) ELSE h

applyMiddlewareForward(h, mw) == applyLoopForward(h, mw, 1)

applyMiddleware(h, mw) == applyLoop(h, mw, Len(mw))

(***************************************************************************)
(* Paths, patterns and the router.  A request path is the sequence of its  *)
(* segments; a pattern is a sequence of segments of kind "static",         *)
(* "param" (:name) or "any" (the catch-all star).                          *)
(***************************************************************************)
Static(label) == [k |-> "static", v |-> label]
Param(name) == [k |-> "param", v |-> name]
CatchAll == [k |-> "any", v |-> "*"]

RECURSIVE Match(_, _)
Match(pat, p) ==
    IF pat = <<>> THEN p = <<>>
    ELSE IF p = <<>> THEN FALSE
    ELSE LET s == Head(pat) IN
         CASE s.k = "any" -> TRUE
           [] s.k = "param" -> Match(Tail(pat), Tail(p))
           [] OTHER -> s.v = Head(p) /\ Match(Tail(pat), Tail(p))

\* The values a matching pattern captures, in the pattern's order.
RECURSIVE Capture(_, _)
Capture(pat, p) ==
    IF pat = <<>> \/ p = <<>> THEN <<>>
    ELSE LET s == Head(pat) IN
         CASE s.k = "any" -> <<p>>
           [] s.k = "param" -> <<(<<Head(p)>>)>> \o Capture(Tail(pat), Tail(p))
           [] OTHER -> Capture(Tail(pat), Tail(p))

NParams(pat) == Cardinality({i \in 1..Len(pat) : pat[i].k # "static"})

RankParamFirst(s) == CASE s.k = "param" -> 0 [] s.k = "static" -> 1 [] OTHER -> 2

Rank(s) == CASE s.k = "static" -> 0 [] s.k = "param" -> 1 [] OTHER -> 2

\* The tree walk tries static, then param, then catch-all at every depth,
\* backtracking on a dead end: of two matching patterns it finds the one
\* that is more specific at the first segment where their kinds differ.
RECURSIVE Before(_, _)
Before(a, b) ==
    IF a = <<>> \/ b = <<>> THEN FALSE
    ELSE IF Rank(Head(a)) # Rank(Head(b)) THEN Rank(Head(a)) < Rank(Head(b))
    ELSE Before(Tail(a), Tail(b))

Matching(rt, p) == {e.path : e \in {x \in rt : Match(x.path, p)}}

BestPattern(rt, p) ==
    CHOOSE a \in Matching(rt, p) : \A b \in Matching(rt, p) : b = a \/ Before(a, b)

StoreValues(pv, vals) ==
    [i \in 1..Len(pv) |-> IF i <= Len(vals) THEN vals[i] ELSE pv[i]]

\* Router.Find(method, path, c): the context with the handler and the
\* parameter values of the resolution.
Find(rt, method, p, c) ==
    IF Matching(rt, p) = {}
    THEN [c EXCEPT !.handler = NotFoundHandler]
    ELSE LET best == BestPattern(rt, p)
             hs == {e \in rt : e.path = best /\ e.method = method}
         IN  IF hs = {}
             THEN [c EXCEPT !.handler = MethodNotAllowedHandler]
             ELSE [c EXCEPT !.handler = (CHOOSE e \in hs : TRUE).h,
                            !.pvalues = StoreValues(@, Capture(best, p))]

\* Router.Add(method, path, h)
RouterAdd(rt, method, p, h) == rt \cup {[method |-> method, path |-> p, h |-> h]}

NewRouter == {}

DefaultHost == ""

\* A router is named by its key in Mux.routers; DefaultRouter names Mux.router.
DefaultRouter == "Mux.router"

RouterOf(key) == IF key = DefaultRouter THEN router ELSE routers[key]

findRouterAny(host) ==
    IF Cardinality(DOMAIN routers) > 0
    THEN CHOOSE h \in DOMAIN routers : TRUE
    ELSE DefaultRouter

findRouter(host) ==
    IF Cardinality(DOMAIN routers) > 0 /\ host \in DOMAIN routers
    THEN host
    ELSE DefaultRouter

(***************************************************************************)
(* The request context and its response.                                   *)
(***************************************************************************)
NewResponse == [status |-> 0, body |-> [form |-> "none", v |-> <<>>], committed |-> FALSE]

\* Mux.NewContext: the parameter slots are sized by maxParam as it is now.
NewContext ==
    [pvalues |-> [i \in 1..maxParam |-> <<>>],
     store |-> {},
     handler |-> NotFoundHandler,
     response |-> NewResponse]

\* context.Reset(r, w): clears the parameter slots, the store, the handler
\* reference and the response; the slot array keeps its length.
Reset(c) ==
    [pvalues |-> [i \in 1..Len(c.pvalues) |-> <<>>],
     store |-> {},
     handler |-> NotFoundHandler,
     response |-> NewResponse]

\* The first write of a response commits it; later ones change nothing.
WriteResponse(c, code, body) ==
    IF c.response.committed THEN c
    ELSE [c EXCEPT !.response = [status |-> code, body |-> body, committed |-> TRUE]]

JSON(c, code, message) == WriteResponse(c, code, message)

NoContent(c, code) == WriteResponse(c, code, [form |-> "none", v |-> <<>>])

String(c, code, text) == WriteResponse(c, code, [form |-> "string", v |-> <<text>>])

MethodHead == "HEAD"

ReportedErrorOuter(err) ==
    IF err.kind = "http"
    THEN [code |-> err.code, msg |-> err.msg]
    ELSE [code |-> StatusInternalServerError,
          msg |-> StatusText(StatusInternalServerError)]

\* The HTTPError the default error handler reports: an HTTPError held in
\* Internal replaces the outer one; any other error becomes a plain 500.
ReportedError(err) ==
    IF err.kind = "http"
    THEN IF err.internal.kind = "http"
         THEN [code |-> err.internal.code, msg |-> err.internal.msg]
         ELSE [code |-> err.code, msg |-> err.msg]
    ELSE [code |-> StatusInternalServerError,
          msg |-> StatusText(StatusInternalServerError)]

ErrorMessageVerbose(err) == [form |-> "string", v |-> ErrorText(err)]

ErrorMessage(err) ==
    IF Debug
    THEN [form |-> "string", v |-> ErrorText(err)]
    ELSE [form |-> "map", v |-> <<"message", ReportedError(err).msg>>]

DefaultHTTPErrorHandlerJSON(err, c, method) ==
    IF ~c.response.committed
    THEN JSON(c, ReportedError(err).code, ErrorMessage(err))
    ELSE c

DefaultHTTPErrorHandler(err, c, method) ==
    IF ~c.response.committed
    THEN IF method = MethodHead
         THEN NoContent(c, ReportedError(err).code)
         ELSE JSON(c, ReportedError(err).code, ErrorMessage(err))
    ELSE c

(***************************************************************************)
(* Requests.  Each worker runs one ServeHTTP call at a time.               *)
(***************************************************************************)
Ev(kind, name) == [ev |-> kind, name |-> name]

BlankContext == [pvalues |-> <<>>, store |-> {}, handler |-> NotFoundHandler,
                 response |-> NewResponse]

IdleReq ==
    [pc |-> "idle", host |-> "", method |-> "", path |-> <<>>, ctx |-> 0,
     chain |-> <<>>, stack |-> <<>>, err |-> Nil, trace |-> <<>>, puts |-> 0,
     prior |-> BlankContext, stopped |-> FALSE, failed |-> FALSE,
     committedBefore |-> FALSE]

InFlight(w) == reqs[w].pc \notin {"idle", "done"}

\* Registration happens while no request is being served.
Quiescent == \A w \in DOMAIN reqs : ~InFlight(w)

Ctx(w) == ctxs[reqs[w].ctx]

SetCtx(w, c) == [ctxs EXCEPT ![reqs[w].ctx] = c]

\* The state outside the Mux, for the runs that exercise a Mux on its own.
NoBoot == boot = [pc |-> "none"]

NoSession == sess = [pc |-> "none"]

NoUser == user = [Email |-> <<>>] /\ ret = [fn |-> "none"]

\* routing.New leaves Mux.Validator nil; the users table starts empty.
NoStore == Validator = FALSE /\ users = <<>>

NoApp == NoBoot /\ NoSession /\ NoUser /\ NoStore

InitMux(workers) ==
    /\ premiddleware = <<>>
    /\ middleware = <<>>
    /\ maxParam = 0
    /\ router = NewRouter
    /\ routers = <<>>
    /\ routes = <<>>
    /\ Debug = FALSE
    /\ pool = {}
    /\ ctxs = <<>>
    /\ reqs = [w \in workers |-> IdleReq]

(***************************************************************************)
(* Registration.                                                           *)
(***************************************************************************)
Pre(mw) ==
    /\ Quiescent
    /\ Len(premiddleware) < MaxPre
    /\ premiddleware' = Append(premiddleware, mw)
    /\ UNCHANGED <<middleware, maxParam, router, routers, routes, Debug, pool, ctxs, reqs, appVars>>

Use(mw) ==
    /\ Quiescent
    /\ Len(middleware) < MaxUse
    /\ middleware' = Append(middleware, mw)
    /\ UNCHANGED <<premiddleware, maxParam, router, routers, routes, Debug, pool, ctxs, reqs, appVars>>

SetDebug(b) ==
    /\ Quiescent
    /\ Debug # b
    /\ Debug' = b
    /\ UNCHANGED <<premiddleware, middleware, maxParam, router, routers, routes, pool, ctxs, reqs, appVars>>

\* A Host that keeps the router a host already has.
HostKeepsRouter(name) ==
    /\ Quiescent
    /\ routers' = IF name \in DOMAIN routers THEN routers
                  ELSE (name :> NewRouter) @@ routers
    /\ UNCHANGED <<premiddleware, middleware, maxParam, router, routes, Debug, pool, ctxs, reqs, appVars>>

Host(name) ==
    /\ Quiescent
    /\ routers' = (name :> NewRouter) @@ routers
    /\ UNCHANGED <<premiddleware, middleware, maxParam, router, routes, Debug, pool, ctxs, reqs, appVars>>

HostEntries == UNION {routers[h] : h \in DOMAIN routers}

NumRoutes ==
    Cardinality(router)
      + Cardinality({x \in (DOMAIN routers) \X HostEntries : x[2] \in routers[x[1]]})

Max(a, b) == IF a >= b THEN a ELSE b

\* Router.Add keeps maxParam at the largest parameter count of any route.
RouterMaxParam(p) == Max(maxParam, NParams(p))

\* Mux.add(host, method, path, handler, middleware...), reached from
\* Mux.Add with the empty host and from the groups Mux.Host returns with
\* the host of a router Host has installed.  It takes no lock: when it
\* runs is up to its caller.
add(host, method, p, name, mw) ==
    /\ host = DefaultHost \/ host \in DOMAIN routers
    /\ NumRoutes < MaxRoutes
    /\ \A e \in RouterOf(findRouter(host)) : ~(e.method = method /\ e.path = p)
    /\ IF findRouter(host) = DefaultRouter
       THEN /\ router' = RouterAdd(router, method, p, RouteClosure(name, mw))
            /\ routers' = routers
       ELSE /\ routers' = [routers EXCEPT
                    ![findRouter(host)] = RouterAdd(@, method, p, RouteClosure(name, mw))]
            /\ router' = router
    /\ maxParam' = RouterMaxParam(p)
    /\ routes' = (<<method, p>> :> [Method |-> method, Path |-> p, Name |-> name]) @@ routes
    /\ UNCHANGED <<premiddleware, middleware, Debug, pool, ctxs, reqs, appVars>>

(***************************************************************************)
(* Mux.ServeHTTP, step by step.                                            *)
(***************************************************************************)
\* pool.Get: a pooled context, or a new one from pool.New.  One context
\* per worker is always available; MaxSpareContexts bounds the others.
Gettable ==
    pool \cup (IF Len(ctxs) < Cardinality(DOMAIN reqs) + MaxSpareContexts
               THEN {Len(ctxs) + 1} ELSE {})

PoolGetKeep(c) == pool

PoolGet(c) == pool \ {c}

PoolPut(c) == pool \cup {c}

AcquiredContextNoReset(got) == got

\* c := m.pool.Get().(*context); c.Reset(req, res)
AcquiredContext(got) == Reset(got)

Acquire(w, host, method, p) ==
    /\ ~InFlight(w)
    /\ \E c \in Gettable :
        LET got == IF c \in pool THEN ctxs[c] ELSE NewContext IN
        /\ ctxs' = IF c <= Len(ctxs)
                   THEN [ctxs EXCEPT ![c] = AcquiredContext(got)]
                   ELSE Append(ctxs, AcquiredContext(got))
        /\ pool' = PoolGet(c)
        /\ reqs' = [reqs EXCEPT ![w] =
                      [IdleReq EXCEPT !.pc = "acquired", !.host = host,
                                      !.method = method, !.path = p, !.ctx = c,
                                      !.chain = NotFoundHandler, !.prior = got]]
    /\ UNCHANGED <<muxConfig, appVars>>

ResolvedChainPreInside(c) ==
    applyMiddleware(applyMiddleware(c.handler, premiddleware), middleware)

\* A dispatch that wraps only matched routes in the router-level
\* middleware.
ResolvedChainRoutesOnly(c) ==
    IF Head(c.handler).kind = "route" THEN applyMiddleware(c.handler, middleware)
    ELSE c.handler

\* The handler ServeHTTP executes when no pre-middleware is registered,
\* for the context c after Router.Find.
ResolvedChain(c) == applyMiddleware(c.handler, middleware)

\* The handler ServeHTTP executes when pre-middleware is registered.
DeferredChain == applyMiddleware(DispatchClosure, premiddleware)

\* m.findRouter(req.Host).Find(req.Method, req.URL.EscapedPath(), c)
Resolve(w) ==
    Find(RouterOf(findRouter(reqs[w].host)), reqs[w].method, reqs[w].path, Ctx(w))

ResolveImmediatelyAlways == TRUE

\* if m.premiddleware == nil
ResolveImmediately == premiddleware = <<>>

Build(w) ==
    /\ reqs[w].pc = "acquired"
    /\ IF ResolveImmediately
       THEN /\ ctxs' = SetCtx(w, Resolve(w))
            /\ reqs' = [reqs EXCEPT ![w].pc = "run",
                                    ![w].chain = ResolvedChain(Resolve(w)),
                                    ![w].trace = Append(@, Ev("find", "")),
                                    ![w].prior = BlankContext]
       ELSE /\ ctxs' = ctxs
            /\ reqs' = [reqs EXCEPT ![w].pc = "run",
                                    ![w].chain = DeferredChain,
                                    ![w].prior = BlankContext]
    /\ UNCHANGED <<muxConfig, pool, appVars>>

Top(w) == Head(reqs[w].chain)

Running(w, kind) ==
    /\ reqs[w].pc = "run"
    /\ reqs[w].chain # <<>>
    /\ Top(w).kind = kind

\* A middleware either calls next and returns what next returns, or
\* returns an error of its own without calling next.
RunMiddleware(w, calls) ==
    /\ Running(w, "mw")
    /\ reqs' = [reqs EXCEPT
                  ![w].trace = Append(@, Ev("in", Top(w).name)),
                  ![w].stack = <<Top(w).name>> \o @,
                  ![w].chain = IF calls THEN Tail(@) ELSE <<>>,
                  ![w].pc = IF calls THEN "run" ELSE "unwind",
                  ![w].stopped = ~calls,
                  ![w].err = IF calls THEN @ ELSE ErrTooManyRequests]
    /\ UNCHANGED <<muxConfig, pool, ctxs, appVars>>

\* The closure of ServeHTTP: route resolution, then the router-level
\* middleware around the resolved handler.
RunDispatch(w) ==
    /\ Running(w, "dispatch")
    /\ ctxs' = SetCtx(w, Resolve(w))
    /\ reqs' = [reqs EXCEPT ![w].chain = ResolvedChain(Resolve(w)),
                            ![w].trace = Append(@, Ev("find", ""))]
    /\ UNCHANGED <<muxConfig, pool, appVars>>

\* The closure of Mux.add: h := applyMiddleware(handler, middleware...)
RouteChain(f) == applyMiddleware(UserHandler(f.name), f.mw)

RunRoute(w) ==
    /\ Running(w, "route")
    /\ reqs' = [reqs EXCEPT ![w].chain = RouteChain(Top(w))]
    /\ UNCHANGED <<muxConfig, pool, ctxs, appVars>>

\* A route handler: it may store a value in the context, may write a
\* response, and returns nil or an error.
RunHandler(w, o) ==
    /\ Running(w, "handler")
    /\ LET c1 == IF o.set THEN [Ctx(w) EXCEPT !.store = @ \cup {Top(w).name}] ELSE Ctx(w)
           c2 == IF o.write THEN String(c1, StatusOK, Top(w).name) ELSE c1
       IN ctxs' = SetCtx(w, c2)
    /\ reqs' = [reqs EXCEPT ![w].trace = Append(@, Ev("handler", Top(w).name)),
                            ![w].chain = <<>>,
                            ![w].pc = "unwind",
                            ![w].err = o.err]
    /\ UNCHANGED <<muxConfig, pool, appVars>>

RunNotFound(w) ==
    /\ Running(w, "notfound")
    /\ reqs' = [reqs EXCEPT ![w].trace = Append(@, Ev("handler", Top(w).name)),
                            ![w].chain = <<>>,
                            ![w].pc = "unwind",
                            ![w].err = ErrNotFound]
    /\ UNCHANGED <<muxConfig, pool, ctxs, appVars>>

RunMethodNotAllowed(w) ==
    /\ Running(w, "notallowed")
    /\ reqs' = [reqs EXCEPT ![w].trace = Append(@, Ev("handler", Top(w).name)),
                            ![w].chain = <<>>,
                            ![w].pc = "unwind",
                            ![w].err = ErrMethodNotAllowed]
    /\ UNCHANGED <<muxConfig, pool, ctxs, appVars>>

\* The innermost entered middleware returns to its caller.
Return(w) ==
    /\ reqs[w].pc = "unwind"
    /\ reqs[w].stack # <<>>
    /\ reqs' = [reqs EXCEPT ![w].trace = Append(@, Ev("out", Head(reqs[w].stack))),
                            ![w].stack = Tail(@)]
    /\ UNCHANGED <<muxConfig, pool, ctxs, appVars>>

\* if err := h(c); err != nil { m.HTTPErrorHandler(err, c) }
ChainReturned(w) ==
    /\ reqs[w].pc = "unwind"
    /\ reqs[w].stack = <<>>
    /\ reqs' = [reqs EXCEPT ![w].pc = IF reqs[w].err # Nil THEN "error" ELSE "release"]
    /\ UNCHANGED <<muxConfig, pool, ctxs, appVars>>

HandleError(w) ==
    /\ reqs[w].pc = "error"
    /\ ctxs' = SetCtx(w, DefaultHTTPErrorHandler(reqs[w].err, Ctx(w), reqs[w].method))
    /\ reqs' = [reqs EXCEPT ![w].pc = "release",
                            ![w].committedBefore = Ctx(w).response.committed]
    /\ UNCHANGED <<muxConfig, pool, appVars>>

ReleaseOnSuccess(w) ==
    /\ reqs[w].pc = "release"
    /\ pool' = IF reqs[w].err = Nil THEN PoolPut(reqs[w].ctx) ELSE pool
    /\ reqs' = [reqs EXCEPT ![w] = [IdleReq EXCEPT !.pc = "done", !.ctx = reqs[w].ctx,
                                   !.failed = reqs[w].err # Nil,
                                   !.puts = IF reqs[w].err = Nil THEN 1 ELSE 0]]
    /\ UNCHANGED <<muxConfig, ctxs, appVars>>

\* m.pool.Put(c)
Release(w) ==
    /\ reqs[w].pc = "release"
    /\ pool' = PoolPut(reqs[w].ctx)
    /\ reqs' = [reqs EXCEPT ![w] = [IdleReq EXCEPT !.pc = "done", !.ctx = reqs[w].ctx,
                                                   !.failed = reqs[w].err # Nil,
                                                   !.puts = reqs[w].puts + 1]]
    /\ UNCHANGED <<muxConfig, ctxs, appVars>>

\* The steps every dispatch can take.
Serve(w) ==
    \/ Build(w)
    \/ RunRoute(w)
    \/ RunNotFound(w)
    \/ ChainReturned(w)
    \/ HandleError(w)
    \/ Release(w)

\* The steps of a dispatch through registered middleware.
ServeMiddleware(w) ==
    \/ \E calls \in BOOLEAN : RunMiddleware(w, calls)
    \/ Return(w)

(***************************************************************************)
(* Mux.Reverse.  A route's Path is a string; the model keeps it as the     *)
(* sequence of its pieces: "/", ":", "*", and the runs of other characters *)
(* (a static label or a parameter name), which Reverse copies one by one.  *)
(***************************************************************************)
RECURSIVE PathString(_)
PathString(pat) ==
    IF pat = <<>> THEN <<>>
    ELSE LET s == Head(pat) IN
         (CASE s.k = "param" -> <<"/", ":", s.v>>
            [] s.k = "any" -> <<"/", "*">>
            [] OTHER -> <<"/", s.v>>) \o PathString(Tail(pat))

\* for ; i < l && r.Path[i] != '/'; i++ {}
RECURSIVE SkipToSlash(_, _)
SkipToSlash(path, i) ==
    IF i <= Len(path) /\ path[i] # "/" THEN SkipToSlash(path, i + 1) ELSE i

RECURSIVE ReverseLoopNoSlash(_, _, _, _, _)
ReverseLoopNoSlash(path, params, i, n, uri) ==
    IF i > Len(path) THEN uri
    ELSE IF path[i] = ":" /\ n < Len(params)
         THEN ReverseLoopNoSlash(path, params, SkipToSlash(path, i) + 1, n + 1,
                                 Append(uri, params[n + 1]))
         ELSE ReverseLoopNoSlash(path, params, i + 1, n, Append(uri, path[i]))

\* The loop over r.Path, with i the (1-based) position, n the number of
\* params used so far and uri the buffer.
RECURSIVE ReverseLoop(_, _, _, _, _)
ReverseLoop(path, params, i, n, uri) ==
    IF i > Len(path) THEN uri
    ELSE IF path[i] = ":" /\ n < Len(params)
         THEN LET j == SkipToSlash(path, i)
                  written == Append(uri, params[n + 1])
              IN  ReverseLoop(path, params, j + 1, n + 1,
                              IF j <= Len(path) THEN Append(written, path[j])
                              ELSE written)
         ELSE ReverseLoop(path, params, i + 1, n, Append(uri, path[i]))

\* The routes of Mux.router.routes with the given name.
Named(name) == {k \in DOMAIN routes : routes[k].Name = name}

\* Mux.Reverse(name, params...): the strings it can return.  It ranges
\* over a map, whose iteration order is unspecified, and stops at the
\* first route with the name.
Reverse(name, params) ==
    IF Named(name) = {} THEN {<<>>}
    ELSE {ReverseLoop(PathString(routes[k].Path), params, 1, 0, <<>>) : k \in Named(name)}

CallReverse(name, params) ==
    /\ \E uri \in Reverse(name, params) :
          ret' = [fn |-> "Reverse", name |-> name, params |-> params, uri |-> uri]
    /\ UNCHANGED <<muxVars, boot, sess, user, Validator, users>>

(***************************************************************************)
(* core.Bootstrap: the configuration is read, framework.New connects the   *)
(* database, builds the Mux and initialises every plugin found, the        *)
(* account service registers its routes, and Start serves.                 *)
(*                                                                         *)
(* boot.files is what ListAvailablePlugins returned, each file by what     *)
(* loading it gives: "ok", "loadError" (plugin.Open fails), "noSymbol"     *)
(* (Lookup fails) or "notPlugin" (the symbol is not a Plugin).  boot.hooks *)
(* is the sequence of plugin hooks called so far.                          *)
(***************************************************************************)
MaxPlugins == 2

PluginKinds == {"ok", "loadError", "noSymbol", "notPlugin"}

BootStart ==
    [pc |-> "Environ", files |-> <<>>, i |-> 1, hooks |-> <<>>,
     initialised |-> {}, err |-> ""]

Hook(i, name) == [plugin |-> i, hook |-> name]

FatallnReturns(b) == b

\* logrus Fatalln: logs and exits the process.
Fatalln(b) == [b EXCEPT !.pc = "exited"]

\* for _, v := range files: the next plugin, or the end of framework.New.
LoopPc(b) == IF b.i <= Len(b.files) THEN "InitializePlugin" ELSE "AddService"

BootStep(b) ==
    /\ boot' = b
    /\ UNCHANGED <<muxVars, sess, user, ret, Validator, users>>

\* config.Environ()
Environ(ok) ==
    /\ boot.pc = "Environ"
    /\ BootStep(IF ok THEN [boot EXCEPT !.pc = "Connect"]
                ELSE Fatalln([boot EXCEPT !.pc = "Connect", !.err = "config"]))

\* database.Connect(...)
Connect(ok) ==
    /\ boot.pc = "Connect"
    /\ BootStep(IF ok THEN [boot EXCEPT !.pc = "ListAvailablePlugins"]
                ELSE Fatalln([boot EXCEPT !.pc = "ListAvailablePlugins",
                                          !.err = "database"]))

\* files, err := ListAvailablePlugins(); a failed walk returns nil files.
ListAvailablePlugins(ok, files) ==
    /\ boot.pc = "ListAvailablePlugins"
    /\ LET listed == [boot EXCEPT !.files = IF ok THEN files ELSE <<>>]
           next == [listed EXCEPT !.pc = LoopPc(listed)]
       IN  BootStep(IF ok THEN next ELSE Fatalln([next EXCEPT !.err = "list"]))

\* InitializePlugin up to the hooks: plugin.Open, Lookup("Plugin") and the
\* type assertion; any failure is returned and is fatal in framework.New.
InitializePlugin ==
    /\ boot.pc = "InitializePlugin"
    /\ LET skipped == [boot EXCEPT !.i = @ + 1, !.err = "plugin"]
       IN  BootStep(IF boot.files[boot.i] = "ok" THEN [boot EXCEPT !.pc = "Install"]
                    ELSE Fatalln([skipped EXCEPT !.pc = LoopPc(skipped)]))

\* extension.Install()
Install ==
    /\ boot.pc = "Install"
    /\ BootStep([boot EXCEPT !.hooks = Append(@, Hook(boot.i, "Install")),
                             !.pc = "ConfigureRoutes"])

\* extension.ConfigureRoutes(mux) has returned, and InitializePlugin
\* returns nil.
ConfigureRoutesReturn ==
    /\ boot.pc = "ConfigureRoutes"
    /\ LET done == [boot EXCEPT !.hooks = Append(@, Hook(boot.i, "ConfigureRoutes")),
                                !.initialised = @ \cup {boot.i},
                                !.i = @ + 1]
       IN  BootStep([done EXCEPT !.pc = LoopPc(done)])

POST == "POST"
Users == <<Static("users")>>
UserOne == <<Static("user")>>
PluginPath(i) == <<Static("plugins"), Static(ToString(i))>>

\* A route registration of the plugin being configured.
ConfigureRoutes ==
    /\ boot.pc = "ConfigureRoutes"
    /\ add(DefaultHost, "GET", PluginPath(boot.i), "pluginHandler", <<>>)

\* account.NewService: mux.GET("/users", ...), then mux.POST("/user", ...).
NewService ==
    /\ boot.pc = "AddService"
    /\ \/ /\ <<"GET", Users>> \notin DOMAIN routes
          /\ add(DefaultHost, "GET", Users, "ListAccounts", <<>>)
       \/ /\ <<"GET", Users>> \in DOMAIN routes
          /\ add(DefaultHost, POST, UserOne, "CreateHandler", <<>>)

\* fw.AddService(account.NewService) has returned.
AddServiceReturn ==
    /\ boot.pc = "AddService"
    /\ {<<"GET", Users>>, <<POST, UserOne>>} \subseteq DOMAIN routes
    /\ BootStep([boot EXCEPT !.pc = "Start"])

\* fw.Start(): Mux.Start serves until it fails, and its error is fatal.
Start(ok) ==
    /\ boot.pc = "Start"
    /\ BootStep(IF ok THEN [boot EXCEPT !.pc = "Serve"]
                ELSE [boot EXCEPT !.pc = "exited", !.err = "listen"])

ServingFromNew == boot.pc \in {"ListAvailablePlugins", "InitializePlugin", "Install",
                               "ConfigureRoutes", "AddService", "Start", "Serve"}

\* The server hands requests to Mux.ServeHTTP from s.Serve on.
Serving == boot.pc = "Serve"

(***************************************************************************)
(* Session.LoadAndSave around one request.  sess.w is the ResponseWriter   *)
(* of the server: its header map, and what it has sent (the status code,   *)
(* the headers as they were when the status went out, the body).  sess.bw  *)
(* is the bufferedResponseWriter the wrapped handler is given.             *)
(***************************************************************************)
MaxHandlerCalls == 3

NewWriter ==
    [header |-> <<>>, wroteHeader |-> FALSE, code |-> 0, sent |-> <<>>, body |-> <<>>]

NewBuffered == [buf |-> <<>>, code |-> 0, wroteHeader |-> FALSE]

SessionStart ==
    [pc |-> "Load", w |-> NewWriter, bw |-> NewBuffered, status |-> "Unmodified",
     token |-> "", committed |-> {}, calls |-> 0, flushed |-> FALSE]

\* http.ResponseWriter: the first WriteHeader sends the code with the
\* headers set so far; a Write before it sends 200 first.
WriterHeaderAdd(w, k, v) == [w EXCEPT !.header = Append(@, [k |-> k, v |-> v])]

WriterWriteHeader(w, code) ==
    IF w.wroteHeader THEN w
    ELSE [w EXCEPT !.wroteHeader = TRUE, !.code = code, !.sent = w.header]

WriterWrite(w, b) == [WriterWriteHeader(w, StatusOK) EXCEPT !.body = @ \o b]

WriteThrough(s, b) == [s EXCEPT !.w = WriterWrite(s.w, b)]

\* bufferedResponseWriter.Write
Write(s, b) == [s EXCEPT !.bw.buf = @ \o b]

\* bufferedResponseWriter.WriteHeader
WriteHeader(s, code) ==
    IF ~s.bw.wroteHeader
    THEN [s EXCEPT !.bw.code = code, !.bw.wroteHeader = TRUE]
    ELSE s

addHeaderIfMissing(w, k, v) ==
    IF \E i \in DOMAIN w.header : w.header[i] = [k |-> k, v |-> v] THEN w
    ELSE WriterHeaderAdd(w, k, v)

\* Session.writeSessionCookie(w, token, expiry); a zero expiry makes the
\* cookie one that deletes itself.
writeSessionCookie(w, token, zero) ==
    addHeaderIfMissing(
        addHeaderIfMissing(
            WriterHeaderAdd(w, "Set-Cookie", [Value |-> token, Expired |-> zero]),
            "Cache-Control", "no-cache"),
        "Vary", "Cookie")

\* defaultErrorFunc: http.Error(w, "Internal Server Error", 500)
defaultErrorFunc(w) ==
    WriterWrite(
        WriterWriteHeader(WriterHeaderAdd(w, "Content-Type", "text/plain"),
                          StatusInternalServerError),
        <<StatusText(StatusInternalServerError)>>)

SessionStep(s) ==
    /\ sess' = s
    /\ UNCHANGED <<muxVars, boot, user, ret, Validator, users>>

\* ctx, err := s.Load(r.Context(), token)
Load(ok) ==
    /\ sess.pc = "Load"
    /\ SessionStep(IF ok THEN [sess EXCEPT !.pc = "next.ServeHTTP"]
                   ELSE [sess EXCEPT !.w = defaultErrorFunc(@), !.pc = "returned"])

InHandler ==
    /\ sess.pc = "next.ServeHTTP"
    /\ sess.calls < MaxHandlerCalls

Called(s) == [s EXCEPT !.calls = @ + 1]

\* The wrapped handler: it writes to the writer it was given, sets
\* headers through it, changes the session, and returns.
HandlerWrite(b) == InHandler /\ SessionStep(Called(Write(sess, <<b>>)))

HandlerWriteHeader(code) == InHandler /\ SessionStep(Called(WriteHeader(sess, code)))

\* bw.Header() is the embedded ResponseWriter's Header().
HandlerSetHeader ==
    /\ InHandler
    /\ SessionStep(Called([sess EXCEPT !.w = WriterHeaderAdd(@, "X-App", "1")]))

HandlerChangesSession(status) ==
    /\ InHandler
    /\ SessionStep(Called([sess EXCEPT !.status = status]))

HandlerReturns ==
    /\ sess.pc = "next.ServeHTTP"
    /\ SessionStep([sess EXCEPT !.pc = "Status"])

\* A Save that writes the session cookie before it commits.
SaveCookieFirst(ok, token) ==
    /\ sess.pc = "Status"
    /\ SessionStep(
          CASE sess.status = "Modified" ->
                   IF ok
                   THEN [sess EXCEPT !.committed = @ \cup {token},
                                     !.token = token,
                                     !.w = writeSessionCookie(@, token, FALSE),
                                     !.pc = "flush"]
                   ELSE [sess EXCEPT !.w = defaultErrorFunc(
                                               writeSessionCookie(@, token, FALSE)),
                                     !.pc = "returned"]
            [] sess.status = "Destroyed" ->
                   [sess EXCEPT !.w = writeSessionCookie(@, "", TRUE), !.pc = "flush"]
            [] OTHER -> [sess EXCEPT !.pc = "flush"])

\* switch s.Status(ctx)
Save(ok, token) ==
    /\ sess.pc = "Status"
    /\ SessionStep(
          CASE sess.status = "Modified" ->
                   IF ok
                   THEN [sess EXCEPT !.committed = @ \cup {token},
                                     !.token = token,
                                     !.w = writeSessionCookie(@, token, FALSE),
                                     !.pc = "flush"]
                   ELSE [sess EXCEPT !.w = defaultErrorFunc(@), !.pc = "returned"]
            [] sess.status = "Destroyed" ->
                   [sess EXCEPT !.w = writeSessionCookie(@, "", TRUE), !.pc = "flush"]
            [] OTHER -> [sess EXCEPT !.pc = "flush"])

\* if bw.code != 0 { w.WriteHeader(bw.code) }; w.Write(bw.buf.Bytes())
Flush ==
    /\ sess.pc = "flush"
    /\ LET w1 == IF sess.bw.code # 0 THEN WriterWriteHeader(sess.w, sess.bw.code)
                 ELSE sess.w
       IN  SessionStep([sess EXCEPT !.w = WriterWrite(w1, sess.bw.buf),
                                    !.flushed = TRUE,
                                    !.pc = "returned"])

(***************************************************************************)
(* models.User.  A string is the sequence of its characters; a permission  *)
(* is known by its codename, and a group by the permissions granted to it. *)
(***************************************************************************)
MaxNameLen == 2

Space == " "

\* strings.Trim(s, " "): s without its leading and trailing spaces.
RECURSIVE TrimLeft(_)
TrimLeft(s) == IF s # <<>> /\ Head(s) = Space THEN TrimLeft(Tail(s)) ELSE s

RECURSIVE TrimRight(_)
TrimRight(s) ==
    IF s # <<>> /\ s[Len(s)] = Space THEN TrimRight(SubSeq(s, 1, Len(s) - 1)) ELSE s

Trim(s) == TrimRight(TrimLeft(s))

\* fmt.Sprintf("%s %s", a, b)
Sprintf(a, b) == a \o <<Space>> \o b

GetFullNameNoTrim(u) ==
    IF u.FirstName # <<>> \/ u.LastName # <<>>
    THEN Sprintf(u.FirstName, u.LastName)
    ELSE u.Email

GetFullName(u) ==
    IF u.FirstName # <<>> \/ u.LastName # <<>>
    THEN Trim(Sprintf(u.FirstName, u.LastName))
    ELSE u.Email

GetShortName(u) == u.Email

\* models.UserHasPerm(user, perm)
UserHasPerm(u, perm) == FALSE

HasPerm(u, perm) ==
    IF u.IsActive /\ u.IsSuperUser THEN TRUE ELSE UserHasPerm(u, perm)

UserStep(r) ==
    /\ ret' = r
    /\ UNCHANGED <<muxVars, boot, sess, user, Validator, users>>

CallGetFullName == UserStep([fn |-> "GetFullName", v |-> GetFullName(user)])

CallGetShortName == UserStep([fn |-> "GetShortName", v |-> GetShortName(user)])

CallHasPerm(perm) == UserStep([fn |-> "HasPerm", perm |-> perm, v |-> HasPerm(user, perm)])

(***************************************************************************)
(* The account service's create handler, POST /user.                       *)
(***************************************************************************)
StatusBadRequest == 400

\* The limits of the validate tags of createParams.
NameGte == 2
NameLte == 25
PasswordGte == 6

\* Rows the users table holds before the database reports an error.
MaxUsers == 1

ErrValidatorNotRegistered == PlainError("validator not registered")

\* A request body: whether it decodes into createParams, the email as
\* sent, and the lengths of the other three fields. A missing field
\* decodes to the empty string.
Emails == {"", "nomail", "a@b.c"}
NameLens == {0, NameGte - 1, NameGte, NameLte + 1}
PasswordLens == {0, PasswordGte - 1, PasswordGte}

\* A body that does not decode leaves every field of createParams empty.
Bodies ==
    [bindable : {TRUE}, email : Emails, firstName : NameLens,
     lastName : NameLens, password : PasswordLens]
    \cup {[bindable |-> FALSE, email |-> "", firstName |-> 0, lastName |-> 0,
           password |-> 0]}

EmailFormat(e) == e = "a@b.c"

\* The validate tags of createParams.
Valid(req) ==
    /\ req.email # "" /\ EmailFormat(req.email)
    /\ req.firstName # 0 /\ req.firstName >= NameGte /\ req.firstName <= NameLte
    /\ req.lastName # 0 /\ req.lastName >= NameGte /\ req.lastName <= NameLte
    /\ req.password # 0 /\ req.password >= PasswordGte

\* c.Bind: an error for a body that does not decode.
Bind(body) == IF body.bindable THEN Nil ELSE NewHTTPError(StatusBadRequest)

\* c.Validate: without a registered validator it reports that, with one it
\* reports the first violated tag.
Validate(v, req) ==
    IF ~v THEN ErrValidatorNotRegistered
    ELSE IF Valid(req) THEN Nil ELSE PlainError("validation")

\* userStore.Create: the row is inserted unless the database reports an
\* error; the password is not stored.
StoreCreate(store, row, dbOk) ==
    IF dbOk THEN [users |-> Append(store, row), err |-> Nil]
    ELSE [users |-> store, err |-> PlainError("db")]

NewUserRow(req) ==
    [Email |-> req.email, FirstName |-> req.firstName, LastName |-> req.lastName]

\* A create handler that stores the user without validating the body.
CreateHandlerNoValidate(c, v, store, body, dbOk) ==
    IF Bind(body) # Nil
    THEN [c |-> String(c, StatusBadRequest, "invalid params"), users |-> store]
    ELSE LET r == StoreCreate(store, NewUserRow(body), dbOk) IN
         IF r.err # Nil
         THEN [c |-> String(c, StatusInternalServerError, r.err.msg), users |-> r.users]
         ELSE [c |-> JSON(c, StatusOK, [form |-> "json", v |-> <<"user">>]),
               users |-> r.users]

CreateHandler(c, v, store, body, dbOk) ==
    IF Bind(body) # Nil
    THEN [c |-> String(c, StatusBadRequest, "invalid params"), users |-> store]
    ELSE IF Validate(v, body) # Nil
    THEN [c |-> String(c, StatusBadRequest, Validate(v, body).msg), users |-> store]
    ELSE LET r == StoreCreate(store, NewUserRow(body), dbOk) IN
         IF r.err # Nil
         THEN [c |-> String(c, StatusInternalServerError, r.err.msg), users |-> r.users]
         ELSE [c |-> JSON(c, StatusOK, [form |-> "json", v |-> <<"user">>]),
               users |-> r.users]

\* The Validator field of the Mux is assigned.
SetValidator ==
    /\ Quiescent
    /\ ~Validator
    /\ Validator' = TRUE
    /\ UNCHANGED <<muxVars, boot, sess, user, ret, users>>

\* The route handler of POST /user runs on a request's context.
RunCreateHandler(w, body, dbOk) ==
    /\ Running(w, "handler")
    /\ Top(w).name = "CreateHandler"
    /\ dbOk => Len(users) < MaxUsers
    /\ LET r == CreateHandler(Ctx(w), Validator, users, body, dbOk) IN
         /\ ctxs' = SetCtx(w, r.c)
         /\ users' = r.users
         /\ ret' = [fn |-> "CreateHandler", body |-> body, validator |-> Validator,
                    status |-> r.c.response.status, before |-> users,
                    after |-> r.users]
    /\ reqs' = [reqs EXCEPT ![w].trace = Append(@, Ev("handler", Top(w).name)),
                            ![w].chain = <<>>, ![w].pc = "unwind", ![w].err = Nil]
    /\ UNCHANGED <<muxConfig, pool, boot, sess, user, Validator>>

Registered(mws) == {mws[i] : i \in DOMAIN mws}

(***************************************************************************)
(* Spec: one worker; the middleware tiers and the order of a dispatch.     *)
(***************************************************************************)
GET == "GET"
DELETE == "DELETE"

UsersActive == <<Static("users"), Static("active")>>
UsersId == <<Static("users"), Param("id")>>

Outcome(set, write, err) == [set |-> set, write |-> write, err |-> err]

OkOutcome == Outcome(TRUE, TRUE, Nil)

Init == InitMux({1}) /\ NoApp

Next ==
    \/ \E mw \in {"P1", "P2"} \ Registered(premiddleware) : Pre(mw)
    \/ \E mw \in {"A", "B"} \ Registered(middleware) : Use(mw)
    \/ \E p \in {UsersId}, mw \in {<<>>, <<"R1", "R2">>} :
          Quiescent /\ add(DefaultHost, GET, p, "getUser", mw)
    \/ \E p \in {<<"users", "42">>, <<"nope">>}, m \in {GET, DELETE} : Acquire(1, "a.test", m, p)
    \/ \E o \in {OkOutcome, Outcome(FALSE, FALSE, PlainError("boom"))} : RunHandler(1, o)
    \/ Serve(1)
    \/ ServeMiddleware(1)
    \/ RunDispatch(1)
    \/ RunMethodNotAllowed(1)

Spec == Init /\ [][Next]_vars

(***************************************************************************)
(* SpecPool: two workers serve requests concurrently from one pool, with   *)
(* routes registered between requests.                                     *)
(***************************************************************************)
PoolWorkers == {1, 2}

PoolOutcomes ==
    {OkOutcome, Outcome(TRUE, FALSE, NewHTTPError(StatusBadGateway)),
     Outcome(FALSE, FALSE, PlainError("boom"))}

InitPool == InitMux(PoolWorkers) /\ NoApp

NextPool ==
    \/ \E mw \in {"A"} \ Registered(middleware) : Use(mw)
    \/ Quiescent /\ add(DefaultHost, GET, UsersId, "getUser", <<>>)
    \/ \E w \in PoolWorkers, p \in {<<"users", "42">>, <<"nope">>} : Acquire(w, "a.test", GET, p)
    \/ \E w \in PoolWorkers, o \in PoolOutcomes : RunHandler(w, o)
    \/ \E w \in PoolWorkers : Serve(w)
    \/ \E w \in PoolWorkers : ServeMiddleware(w)

SpecPool == InitPool /\ [][NextPool]_vars

(***************************************************************************)
(* SpecHost: virtual hosts and route resolution.                           *)
(***************************************************************************)
HostNames == {"a.test", "b.test"}

\* The handlers registered under different hosts are different functions.
HandlerFor(h) == IF h = DefaultHost THEN "defaultUser" ELSE h

InitHost == InitMux({1}) /\ NoApp

NextHost ==
    \/ \E h \in HostNames : Host(h)
    \/ \E h \in HostNames \cup {DefaultHost}, p \in {UsersId, UsersActive} :
          Quiescent /\ add(h, GET, p, HandlerFor(h), <<>>)
    \/ \E h \in HostNames \cup {"c.test"},
          p \in {<<"users", "42">>, <<"users", "active">>} : Acquire(1, h, GET, p)
    \/ RunHandler(1, OkOutcome)
    \/ Serve(1)

SpecHost == InitHost /\ [][NextHost]_vars

(***************************************************************************)
(* SpecErr: the default HTTP error handler on the errors a handler chain   *)
(* can return.                                                             *)
(***************************************************************************)
Wrapped(inner) == SetInternal(NewHTTPErrorMsg(StatusBadGateway, "upstream failed"), inner)

ErrOutcomes ==
    {Outcome(FALSE, FALSE, e) :
        e \in {NewHTTPError(StatusBadGateway),
               NewHTTPErrorMsg(StatusBadGateway, "upstream failed"),
               Wrapped(PlainError("boom")),
               Wrapped(ErrNotFound),
               PlainError("boom"),
               PlainError("bang")}}
      \cup {OkOutcome, Outcome(FALSE, TRUE, NewHTTPError(StatusBadGateway))}

InitErr == InitMux({1}) /\ NoApp

NextErr ==
    \/ \E b \in BOOLEAN : SetDebug(b)
    \/ \E m \in {GET, MethodHead} :
          Quiescent /\ add(DefaultHost, m, UsersActive, "listUsers", <<>>)
    \/ \E m \in {GET, MethodHead}, p \in {<<"users", "active">>, <<"nope">>} :
          Acquire(1, "a.test", m, p)
    \/ \E o \in ErrOutcomes : RunHandler(1, o)
    \/ Serve(1)
    \/ RunMethodNotAllowed(1)

SpecErr == InitErr /\ [][NextErr]_vars

(***************************************************************************)
(* SpecReverse: routes are registered under handler names and URLs are     *)
(* generated from the names.                                               *)
(***************************************************************************)
MaxParams == 3

UserPost == <<Static("users"), Param("id"), Static("posts"), Param("pid")>>
Files == <<Static("files"), CatchAll>>

RECURSIVE SeqsUpTo(_, _)
SeqsUpTo(S, n) ==
    IF n = 0 THEN {<<>>}
    ELSE SeqsUpTo(S, n - 1)
           \cup {Append(q, x) : q \in {r \in SeqsUpTo(S, n - 1) : Len(r) = n - 1}, x \in S}

InitReverse == InitMux({1}) /\ NoApp

NextReverse ==
    \/ \E p \in {UsersActive, UsersId, UserPost, Files}, name \in {"getUser", "getPost"} :
          add(DefaultHost, GET, p, name, <<>>)
    \/ \E name \in {"getUser", "getPost"}, params \in SeqsUpTo({"7", "8"}, MaxParams) :
          CallReverse(name, params)

SpecReverse == InitReverse /\ [][NextReverse]_vars

(***************************************************************************)
(* SpecStatic: a static and a parameter route at the same depth,           *)
(* registered in either order.                                             *)
(***************************************************************************)
\* The handler registered for a pattern.
HandlerOf(p) == IF p = UsersActive THEN "listActive" ELSE "getUser"

InitStatic == InitMux({1}) /\ NoApp

NextStatic ==
    \/ \E p \in {UsersActive, UsersId}, m \in {GET, DELETE} :
          Quiescent /\ add(DefaultHost, m, p, HandlerOf(p), <<>>)
    \/ \E p \in {<<"users", "active">>, <<"users", "42">>, <<"users", "actives">>},
          m \in {GET, DELETE} : Acquire(1, "a.test", m, p)
    \/ RunHandler(1, OkOutcome)
    \/ Serve(1)
    \/ RunMethodNotAllowed(1)

SpecStatic == InitStatic /\ [][NextStatic]_vars

(***************************************************************************)
(* SpecBoot: the process from core.Bootstrap to serving requests.          *)
(***************************************************************************)
InitBoot == InitMux({1}) /\ boot = BootStart /\ NoSession /\ NoUser /\ NoStore

NextBoot ==
    \/ \E ok \in BOOLEAN : Environ(ok)
    \/ \E ok \in BOOLEAN : Connect(ok)
    \/ \E ok \in BOOLEAN, files \in SeqsUpTo(PluginKinds, MaxPlugins) :
          ListAvailablePlugins(ok, files)
    \/ InitializePlugin
    \/ Install
    \/ ConfigureRoutes
    \/ ConfigureRoutesReturn
    \/ NewService
    \/ AddServiceReturn
    \/ \E ok \in BOOLEAN : Start(ok)
    \/ \E p \in {<<"users">>, <<"plugins", "1">>, <<"nope">>} :
          Serving /\ Acquire(1, "a.test", GET, p)
    \/ \E o \in {OkOutcome, Outcome(FALSE, FALSE, PlainError("boom"))} : RunHandler(1, o)
    \/ Serve(1)

SpecBoot == InitBoot /\ [][NextBoot]_vars

(***************************************************************************)
(* SpecSession: one request through the LoadAndSave middleware.            *)
(***************************************************************************)
InitSession == InitMux({1}) /\ NoBoot /\ sess = SessionStart /\ NoUser /\ NoStore

NextSession ==
    \/ \E ok \in BOOLEAN : Load(ok)
    \/ \E b \in {"a", "b"} : HandlerWrite(b)
    \/ \E code \in {StatusOK, StatusNotFound} : HandlerWriteHeader(code)
    \/ HandlerSetHeader
    \/ \E status \in {"Modified", "Destroyed"} : HandlerChangesSession(status)
    \/ HandlerReturns
    \/ \E ok \in BOOLEAN, token \in {"t1", "t2"} : Save(ok, token)
    \/ Flush

SpecSession == InitSession /\ [][NextSession]_vars

(***************************************************************************)
(* SpecUser: the methods of a User, on users of every shape.               *)
(***************************************************************************)
NameStrings == SeqsUpTo({"a", Space}, MaxNameLen)

Codenames == {"product-list", "product-edit"}

Editors == [Name |-> "editors", Permissions |-> {"product-edit"}]

AllUsers ==
    [FirstName : NameStrings, LastName : NameStrings, Email : {<<"e", "@", "x">>},
     IsActive : BOOLEAN, IsSuperUser : BOOLEAN,
     Permissions : {{}, {"product-list"}}, Groups : {{}, {Editors}}]

InitUser ==
    /\ InitMux({1}) /\ NoBoot /\ NoSession /\ NoStore
    /\ user \in AllUsers /\ ret = [fn |-> "none"]

NextUser ==
    \/ CallGetFullName
    \/ CallGetShortName
    \/ \E perm \in Codenames : CallHasPerm(perm)

SpecUser == InitUser /\ [][NextUser]_vars

\* The account service: POST /user is registered, a validator may be set,
\* and requests carry any body.
UserPath == <<Static("user")>>

InitCreate == InitMux({1}) /\ NoApp

NextCreate ==
    \/ Quiescent /\ add(DefaultHost, POST, UserPath, "CreateHandler", <<>>)
    \/ SetValidator
    \/ Acquire(1, "a.test", POST, <<"user">>)
    \/ \E body \in Bodies, dbOk \in BOOLEAN : RunCreateHandler(1, body, dbOk)
    \/ Serve(1)

SpecCreate == InitCreate /\ [][NextCreate]_vars

\* Hosts are created anew at any time between requests for one path.
InitRehost == InitMux({1}) /\ NoApp

NextRehost ==
    \/ \E h \in HostNames : Host(h)
    \/ \E h \in HostNames \cup {DefaultHost} :
          Quiescent /\ add(h, GET, UsersId, HandlerFor(h), <<>>)
    \/ \E h \in HostNames \cup {"c.test"} : Acquire(1, h, GET, <<"users", "42">>)
    \/ RunHandler(1, OkOutcome)
    \/ Serve(1)

SpecRehost == InitRehost /\ [][NextRehost]_vars

(***************************************************************************)
(* What a request's trace shows.                                           *)
(***************************************************************************)
Names(t, kind) ==
    LET Is(e) == e.ev = kind
        sel == SelectSeq(t, Is)
    IN  [i \in 1..Len(sel) |-> sel[i].name]

WithoutFind(t) == LET NotFind(e) == e.ev # "find" IN SelectSeq(t, NotFind)

Ins(names) == [i \in 1..Len(names) |-> Ev("in", names[i])]

Outs(names) == [i \in 1..Len(names) |-> Ev("out", names[i])]

ReverseSeq(q) == [i \in 1..Len(q) |-> q[Len(q) + 1 - i]]

Has(t, kind) == \E i \in DOMAIN t : t[i].ev = kind

FindAt(t) == CHOOSE i \in DOMAIN t : t[i].ev = "find"

\* The route-level middleware of the route the request resolved to.
RouteMw(w) ==
    LET h == Head(Ctx(w).handler) IN IF h.kind = "route" THEN h.mw ELSE <<>>

\* Every middleware around the request's handler, outermost first.
Order(w) == premiddleware \o middleware \o RouteMw(w)

ChainHasReturned(w) == reqs[w].pc \in {"error", "release"}

RanUserHandler(w) ==
    \E i \in DOMAIN reqs[w].trace :
        /\ reqs[w].trace[i].ev = "handler"
        /\ reqs[w].trace[i].name \notin {"NotFoundHandler", "MethodNotAllowedHandler"}

\* C1: a composed handler enters its middleware in the order of the list,
\* then the handler, and leaves them in the reverse order: when the chain
\* of a request has returned, its trace is the in-events of the entered
\* middleware in registration order, the handler, and the out-events in
\* reverse; a middleware that did not call next ends the way in.
C1_NestedOrder ==
    \A w \in DOMAIN reqs :
        ChainHasReturned(w) =>
            LET t == WithoutFind(reqs[w].trace)
                entered == Names(t, "in")
            IN  /\ Len(entered) <= Len(Order(w))
                /\ entered = SubSeq(Order(w), 1, Len(entered))
                /\ ~reqs[w].stopped => entered = Order(w)
                /\ IF reqs[w].stopped
                   THEN t = Ins(entered) \o Outs(ReverseSeq(entered))
                   ELSE /\ Len(t) = 2 * Len(entered) + 1
                        /\ t[Len(entered) + 1].ev = "handler"
                        /\ t = Ins(entered) \o <<t[Len(entered) + 1]>>
                                 \o Outs(ReverseSeq(entered))

C1_Witness ==
    \E w \in DOMAIN reqs :
        /\ reqs[w].pc = "release"
        /\ premiddleware = <<>>
        /\ middleware = <<"A", "B">>
        /\ reqs[w].trace = <<Ev("find", ""), Ev("in", "A"), Ev("in", "B"),
                             Ev("handler", "getUser"), Ev("out", "B"), Ev("out", "A")>>

Tier(e) ==
    IF e.ev = "handler" THEN 4
    ELSE IF e.name \in Registered(premiddleware) THEN 1
    ELSE IF e.name \in Registered(middleware) THEN 2
    ELSE 3

Entering(t) == LET Enters(e) == e.ev \in {"in", "handler"} IN SelectSeq(t, Enters)

\* C2: in every request the pre-middleware are entered before the
\* router-level middleware, these before the route-level middleware, and
\* these before the route handler; a route handler runs only after every
\* middleware of the three tiers has been entered, in that order.
C2_TierOrder ==
    \A w \in DOMAIN reqs :
        InFlight(w) =>
            LET e == Entering(reqs[w].trace) IN
            /\ \A i, j \in DOMAIN e : i < j => Tier(e[i]) <= Tier(e[j])
            /\ RanUserHandler(w) => Names(reqs[w].trace, "in") = Order(w)

C2_Witness ==
    \E w \in DOMAIN reqs :
        /\ RanUserHandler(w)
        /\ premiddleware # <<>>
        /\ Len(middleware) = 2
        /\ RouteMw(w) # <<>>

\* C3: with pre-middleware registered, Router.Find runs only once every
\* pre-middleware has been entered and has called next, and a request a
\* pre-middleware stops sees no route resolution, no router-level or
\* route-level middleware and no handler; with none registered, Find is
\* the first thing a dispatch does.
C3_DeferredFind ==
    \A w \in DOMAIN reqs :
        InFlight(w) =>
            LET t == reqs[w].trace IN
            /\ (premiddleware # <<>> /\ Has(t, "find")) =>
                   SubSeq(t, 1, FindAt(t) - 1) = Ins(premiddleware)
            /\ (premiddleware # <<>> /\ reqs[w].stopped
                  /\ Names(t, "in")[Len(Names(t, "in"))] \in Registered(premiddleware)) =>
                   /\ ~Has(t, "find")
                   /\ ~Has(t, "handler")
                   /\ \A i \in DOMAIN t : t[i].name \in Registered(premiddleware)
            /\ (premiddleware = <<>> /\ t # <<>>) => t[1].ev = "find"

C3_Witness ==
    \E w \in DOMAIN reqs :
        /\ reqs[w].pc = "release"
        /\ reqs[w].stopped
        /\ Len(premiddleware) = 2
        /\ Names(reqs[w].trace, "in") = premiddleware
        /\ middleware # <<>>
        /\ router # {}

\* C4: every dispatch puts its context back exactly once, whether the
\* handler chain succeeded or failed, and only after the chain and the
\* error handler have finished: while a request is in flight its context
\* has not been put back and is not in the pool, and a finished dispatch
\* has put it back once.
C4_ReleasedOnce ==
    \A w \in DOMAIN reqs :
        /\ InFlight(w) => reqs[w].puts = 0 /\ reqs[w].ctx \notin pool
        /\ reqs[w].pc = "done" => reqs[w].puts = 1

C4_Witness ==
    \E w \in DOMAIN reqs :
        /\ reqs[w].pc = "done"
        /\ reqs[w].failed
        /\ reqs[w].puts = 1
        /\ reqs[w].ctx \in pool

\* C5: no context is held by two requests in flight, and a context held by
\* a request is not in the pool for another request to take.
C5_ExclusiveContext ==
    \A w \in DOMAIN reqs :
        InFlight(w) =>
            /\ reqs[w].ctx \notin pool
            /\ \A v \in DOMAIN reqs : (v # w /\ InFlight(v)) => reqs[v].ctx # reqs[w].ctx

C5_Witness ==
    \E w, v \in DOMAIN reqs :
        /\ w # v
        /\ reqs[w].pc = "run"
        /\ reqs[v].pc = "run"
        /\ reqs[w].ctx # reqs[v].ctx

Clean(c) ==
    /\ c.store = {}
    /\ c.handler = NotFoundHandler
    /\ \A i \in DOMAIN c.pvalues : c.pvalues[i] = <<>>

\* C6: a request that has acquired and reset its context, fresh or
\* recycled, sees no parameter value, no store entry and no handler of
\* an earlier request: every slot is empty, the store is empty and the
\* handler is the not-found handler.
C6_CleanAfterReset ==
    \A w \in DOMAIN reqs : reqs[w].pc = "acquired" => Clean(Ctx(w))

C6_Witness ==
    \E w \in DOMAIN reqs :
        /\ reqs[w].pc = "acquired"
        /\ reqs[w].prior.store # {}
        /\ reqs[w].prior.handler # NotFoundHandler
        /\ \E i \in DOMAIN reqs[w].prior.pvalues : reqs[w].prior.pvalues[i] # <<>>
        /\ reqs[w].prior.response.committed

\* C7: every context serving a request has at least maxParam parameter
\* slots, also one pooled before a route with more parameters was added.
C7_SlotsCoverMaxParam ==
    \A w \in DOMAIN reqs : InFlight(w) => Len(Ctx(w).pvalues) >= maxParam

\* The host whose router serves the request: its own host when Host has
\* installed a router for exactly that name, the default host otherwise.
ServingHost(w) ==
    IF reqs[w].host \in DOMAIN routers THEN reqs[w].host ELSE DefaultHost

RegisteredUnder(h) == IF h = DefaultHost THEN router ELSE routers[h]

\* C8: a request is resolved in the router registered for exactly its
\* host, or in the default router when there is none: once resolved, its
\* handler is a route exactly when that router holds a route for its
\* method and path, and then it is a handler registered under that host,
\* never one registered only under another host.
C8_HostRouter ==
    \A w \in DOMAIN reqs :
        (InFlight(w) /\ Has(reqs[w].trace, "find")) =>
            LET h == Head(Ctx(w).handler)
                own == {e \in RegisteredUnder(ServingHost(w)) :
                           e.method = reqs[w].method /\ Match(e.path, reqs[w].path)}
            IN  /\ h.kind = "route" <=> own # {}
                /\ h.kind = "route" => h.name = HandlerFor(ServingHost(w))

C8_Witness ==
    \E w \in DOMAIN reqs :
        /\ reqs[w].host = "b.test"
        /\ DOMAIN routers = {"a.test", "b.test"}
        /\ RanUserHandler(w)
        /\ Head(Ctx(w).handler).name = "b.test"
        /\ routers["a.test"] # {}

Status(w) == Ctx(w).response.status

\* C9: for a request that every middleware passed on to the resolved
\* handler, the answer is 405 when its path matches a registered pattern
\* and no matching pattern has a handler for its method, and 404 when its
\* path matches no registered pattern.
C9_NotAllowedNotFound ==
    \A w \in DOMAIN reqs :
        (reqs[w].pc = "release" /\ ~reqs[w].stopped) =>
            LET rt == RouterOf(findRouter(reqs[w].host))
                hit == {e \in rt : Match(e.path, reqs[w].path)}
            IN  /\ (hit # {} /\ \A e \in hit : e.method # reqs[w].method) =>
                       Status(w) = StatusMethodNotAllowed
                /\ hit = {} => Status(w) = StatusNotFound

C9_Witness ==
    \E w \in DOMAIN reqs :
        /\ reqs[w].pc = "release"
        /\ reqs[w].method = DELETE
        /\ reqs[w].path = <<"users", "42">>
        /\ Status(w) = StatusMethodNotAllowed
        /\ premiddleware # <<>>
        /\ middleware # <<>>

\* The body the default error handler sends for err with message m.
ErrorBody(err, m) ==
    IF Debug THEN [form |-> "string", v |-> ErrorText(err)]
    ELSE [form |-> "map", v |-> <<"message", m>>]

HandledHTTPError(w) ==
    /\ reqs[w].pc = "release"
    /\ reqs[w].err.kind = "http"
    /\ ~reqs[w].committedBefore

\* C10 as claimed: an HTTPError with code C and message M, returned while
\* the response is uncommitted, is answered with status C and message M
\* (in debug mode the verbose text), whatever its Internal field holds.
C10_OuterCodeAndMessage ==
    \A w \in DOMAIN reqs :
        HandledHTTPError(w) =>
            /\ Status(w) = reqs[w].err.code
            /\ reqs[w].method # MethodHead =>
                   Ctx(w).response.body = ErrorBody(reqs[w].err, reqs[w].err.msg)

\* C10: an HTTPError returned while the response is uncommitted is
\* answered with its own code and message unless its Internal field holds
\* another HTTPError, and then with the code and message of that inner
\* error; in debug mode the body is the verbose text of the returned
\* error; a HEAD request gets the status and no body.
C10_ReportedCodeAndMessage ==
    \A w \in DOMAIN reqs :
        HandledHTTPError(w) =>
            LET err == reqs[w].err
                code == IF err.internal.kind = "http" THEN err.internal.code ELSE err.code
                m == IF err.internal.kind = "http" THEN err.internal.msg ELSE err.msg
            IN  /\ Status(w) = code
                /\ Ctx(w).response.committed
                /\ Ctx(w).response.body =
                       IF reqs[w].method = MethodHead
                       THEN [form |-> "none", v |-> <<>>]
                       ELSE ErrorBody(err, m)

C10_Witness ==
    \E w \in DOMAIN reqs :
        /\ HandledHTTPError(w)
        /\ reqs[w].err = Wrapped(ErrNotFound)
        /\ Status(w) = StatusNotFound
        /\ Debug

NoBody == [form |-> "none", v |-> <<>>]

\* The texts an untyped error may carry.
ErrTexts == {"boom", "bang"}

HandledUntypedError(w) ==
    /\ reqs[w].pc = "release"
    /\ reqs[w].err.kind = "plain"
    /\ ~reqs[w].committedBefore

\* The context as the error handler found it: nothing had been written.
BeforeHandling(w) == [Ctx(w) EXCEPT !.response = NewResponse]

\* C11: outside debug mode an untyped error returned while the response is
\* uncommitted is answered with status 500 and the generic status text,
\* and the response is the same one the handler would have sent had the
\* error carried any other text.
C11_UntypedNoLeak ==
    \A w \in DOMAIN reqs :
        (HandledUntypedError(w) /\ ~Debug) =>
            /\ Status(w) = StatusInternalServerError
            /\ Ctx(w).response.body =
                   IF reqs[w].method = MethodHead THEN NoBody
                   ELSE [form |-> "map",
                         v |-> <<"message", StatusText(StatusInternalServerError)>>]
            /\ \A t \in ErrTexts :
                   Ctx(w).response =
                       DefaultHTTPErrorHandler(PlainError(t), BeforeHandling(w),
                                               reqs[w].method).response

C11_Witness ==
    \E w \in DOMAIN reqs :
        /\ HandledUntypedError(w)
        /\ ~Debug
        /\ reqs[w].err = PlainError("bang")
        /\ reqs[w].method = GET
        /\ Ctx(w).response.committed

HandledHead(w) ==
    /\ reqs[w].pc = "release"
    /\ reqs[w].err # Nil
    /\ reqs[w].method = MethodHead
    /\ ~reqs[w].committedBefore

\* C12 as claimed: a HEAD request whose chain returns an error while the
\* response is uncommitted is answered with the status code of the
\* returned error (500 for an untyped one) and no body.
C12_HeadReturnedCode ==
    \A w \in DOMAIN reqs :
        HandledHead(w) =>
            /\ Status(w) = IF reqs[w].err.kind = "http" THEN reqs[w].err.code
                           ELSE StatusInternalServerError
            /\ Ctx(w).response.body = NoBody

\* C12: a HEAD request whose chain returns an error while the response is
\* uncommitted is answered with no body, in debug and non-debug mode, and
\* with the status code the handler resolves: the code of the HTTPError
\* held in Internal when there is one, else the returned HTTPError's own
\* code, and 500 for an untyped error.
C12_HeadNoBody ==
    \A w \in DOMAIN reqs :
        HandledHead(w) =>
            LET err == reqs[w].err
            IN  /\ Ctx(w).response.committed
                /\ Ctx(w).response.body = NoBody
                /\ Status(w) =
                       IF err.kind # "http" THEN StatusInternalServerError
                       ELSE IF err.internal.kind = "http" THEN err.internal.code
                       ELSE err.code

C12_Witness ==
    \E w \in DOMAIN reqs :
        /\ HandledHead(w)
        /\ Debug
        /\ reqs[w].err = NewHTTPErrorMsg(StatusBadGateway, "upstream failed")
        /\ Status(w) = StatusBadGateway
        /\ Ctx(w).response.body = NoBody

RECURSIVE Concat(_)
Concat(qs) == IF qs = <<>> THEN <<>> ELSE Head(qs) \o Concat(Tail(qs))

\* The number of ':name' placeholders among the first i segments of pat.
Placeholders(pat, i) == Cardinality({j \in 1..i : pat[j].k = "param"})

\* The pattern with its first min(k, n) placeholders replaced, in order, by
\* the first params, and everything else as the pattern has it.
Rebuilt(pat, params) ==
    Concat([i \in 1..Len(pat) |->
               IF pat[i].k = "param" /\ Placeholders(pat, i) <= Len(params)
               THEN <<"/", params[Placeholders(pat, i)]>>
               ELSE PathString(<<pat[i]>>)])

\* C13: Reverse(name, p1..pk) returns, for a route named name, the route's
\* pattern with its first min(k, n) ':name' placeholders replaced left to
\* right by p1..p_min(k,n), every other piece kept in place, the remaining
\* placeholders left in their ':name' form and surplus params ignored; for
\* a name no route has it returns the empty string.
C13_ReverseRebuilds ==
    [][(ret' # ret /\ ret'.fn = "Reverse") =>
          IF Named(ret'.name) = {} THEN ret'.uri = <<>>
          ELSE \E k \in Named(ret'.name) :
                  ret'.uri = Rebuilt(routes[k].Path, ret'.params)]_vars

C13_Witness ==
    /\ ret.fn = "Reverse"
    /\ ret.name = "getPost"
    /\ ret.params = <<"7">>
    /\ Named("getPost") = {<<GET, UserPost>>}
    /\ ret.uri = <<"/", "users", "/", "7", "/", "posts", "/", ":", "pid">>

\* Both the static and the parameter route are registered for the method
\* of the request of worker w, and the request has been resolved.
ResolvedWithBoth(w) ==
    /\ reqs[w].pc \in {"run", "unwind", "release"}
    /\ \A p \in {UsersActive, UsersId} :
          \E e \in router : e.method = reqs[w].method /\ e.path = p

AllPlugins == 1..Len(boot.files)

\* C15: a failure to read the configuration, to connect, to list the
\* plugins or to initialise any discovered plugin ends the process at
\* once, and the process gets to AddService, Start and serving only with
\* every discovered plugin loaded and initialised.
C15_FatalOnPluginFailure ==
    /\ boot.err # "" => boot.pc = "exited"
    /\ (boot.pc \in {"AddService", "Start", "Serve"} \/ ~Quiescent) =>
           /\ boot.err = ""
           /\ boot.initialised = AllPlugins
           /\ \A i \in AllPlugins : boot.files[i] = "ok"

C15_Witness ==
    /\ boot.pc = "exited"
    /\ boot.err = "plugin"
    /\ Len(boot.files) = 2
    /\ boot.files[2] = "noSymbol"
    /\ boot.initialised = {1}
    /\ <<GET, PluginPath(1)>> \in DOMAIN routes

\* C16 as claimed: for every plugin InitializePlugin has initialised, the
\* Install hook was called and the PostInstall hook was called after it.
C16_PostInstallAfterInstall ==
    \A i \in boot.initialised :
        \E j, k \in DOMAIN boot.hooks :
            /\ j < k
            /\ boot.hooks[j] = Hook(i, "Install")
            /\ boot.hooks[k] = Hook(i, "PostInstall")

\* C17: routes are registered only by a plugin's ConfigureRoutes during
\* framework.New and by the account service during AddService, never
\* while a request is being dispatched, and requests are dispatched only
\* once Start serves, after which no route is registered.
C17_RegisteredBeforeServing ==
    [][/\ routes' # routes =>
              /\ boot.pc \in {"ConfigureRoutes", "AddService"}
              /\ Quiescent
       /\ ~Quiescent' => boot'.pc = "Serve"]_vars

C17_Witness ==
    \E w \in DOMAIN reqs :
        /\ boot.pc = "Serve"
        /\ reqs[w].pc = "release"
        /\ reqs[w].path = <<"plugins", "1">>
        /\ RanUserHandler(w)
        /\ DOMAIN routes = {<<GET, PluginPath(1)>>, <<GET, Users>>, <<POST, UserOne>>}

SetCookies(header) == {header[i].v : i \in {j \in DOMAIN header : header[j].k = "Set-Cookie"}}

Joined(u) == u.FirstName \o <<Space>> \o u.LastName

\* s is t without spaces at its ends: a slice of t that neither starts
\* nor ends with a space, with nothing but spaces cut off on either side.
IsStripped(s, t) ==
    /\ s = <<>> \/ (s[1] # Space /\ s[Len(s)] # Space)
    /\ \E a \in 1..(Len(t) + 1) :
          /\ a + Len(s) - 1 <= Len(t)
          /\ s = SubSeq(t, a, a + Len(s) - 1)
          /\ \A i \in 1..Len(t) : (i < a \/ i >= a + Len(s)) => t[i] = Space

\* C19 as claimed: GetFullName is 'FirstName LastName' when both names are
\* set, the one name that is set, without leading or trailing space, when
\* only one is, and the Email when neither is; GetShortName is the Email.
C19_FullNameAsJoined ==
    /\ ret.fn = "GetShortName" => ret.v = user.Email
    /\ ret.fn = "GetFullName" =>
           CASE user.FirstName # <<>> /\ user.LastName # <<>> -> ret.v = Joined(user)
             [] user.FirstName # <<>> -> IsStripped(ret.v, user.FirstName)
             [] user.LastName # <<>> -> IsStripped(ret.v, user.LastName)
             [] OTHER -> ret.v = user.Email

\* C19: GetFullName is the Email when both names are empty, and otherwise
\* 'FirstName LastName' without the spaces at its two ends: that is
\* 'FirstName LastName' itself when both names are set and FirstName does
\* not start and LastName does not end with a space, and the one name that
\* is set, without leading or trailing space, when only one is;
\* GetShortName is the Email.
C19_FullNameStripped ==
    /\ ret.fn = "GetShortName" => ret.v = user.Email
    /\ ret.fn = "GetFullName" =>
           IF user.FirstName = <<>> /\ user.LastName = <<>>
           THEN ret.v = user.Email
           ELSE /\ IsStripped(ret.v, Joined(user))
                /\ (/\ user.FirstName # <<>> /\ user.LastName # <<>>
                    /\ Head(user.FirstName) # Space
                    /\ user.LastName[Len(user.LastName)] # Space) =>
                       ret.v = Joined(user)
                /\ user.LastName = <<>> => IsStripped(ret.v, user.FirstName)
                /\ user.FirstName = <<>> => IsStripped(ret.v, user.LastName)

C19_Witness ==
    /\ ret.fn = "GetFullName"
    /\ user.FirstName = <<Space, "a">>
    /\ user.LastName = <<"a">>
    /\ ret.v = <<"a", Space, "a">>

Granted(u, perm) ==
    \/ perm \in u.Permissions
    \/ \E g \in u.Groups : perm \in g.Permissions

\* C20 as claimed: HasPerm(perm) is true whenever the permission was
\* granted to the user directly or to a group the user belongs to.
C20_HasPermWhenGranted ==
    (ret.fn = "HasPerm" /\ Granted(user, ret.perm)) => ret.v = TRUE

\* C22: the create handler stores a user only when the body was bound and
\* passed validation; a body that does not bind, or in which a field is
\* missing or violates its tag, is answered with 400 and the users table
\* is as it was.
C22_CreateAfterBindAndValidate ==
    ret.fn = "CreateHandler" =>
        /\ ~(ret.body.bindable /\ Valid(ret.body)) =>
              ret.status = StatusBadRequest /\ ret.after = ret.before
        /\ ret.after # ret.before =>
              ret.body.bindable /\ ret.validator /\ Valid(ret.body)

\* A bound body with a one-letter first name was refused while a user was
\* already stored and a validator was set.
C22_Witness ==
    /\ ret.fn = "CreateHandler"
    /\ ret.validator /\ ret.body.bindable
    /\ ret.body.firstName = NameGte - 1 /\ ret.body.email = "a@b.c"
    /\ ret.body.lastName = NameGte /\ ret.body.password = PasswordGte
    /\ Len(ret.before) = 1
    /\ ret.status = StatusBadRequest
    /\ reqs[1].pc = "done"

\* LoadAndSave returned through ErrorFunc: it returned without writing
\* the buffered response.
ThroughErrorFunc == sess.pc = "returned" /\ ~sess.flushed

\* C23 as claimed: when LoadAndSave invoked ErrorFunc, the client has
\* received what ErrorFunc writes and nothing else.
C23_OnlyErrorFunc == ThroughErrorFunc => sess.w = defaultErrorFunc(NewWriter)

\* C23: when LoadAndSave invoked ErrorFunc, the status code and the body
\* the client received are ErrorFunc's and not the buffered ones, no
\* Set-Cookie header was sent, and when it was Load that failed the
\* wrapped handler has done nothing and nothing runs afterwards; the
\* headers the handler set through the writer's Header are sent with
\* ErrorFunc's status code.
C23_ErrorFuncStatusAndBody ==
    /\ [](ThroughErrorFunc =>
            /\ sess.w.code = StatusInternalServerError
            /\ sess.w.body = <<StatusText(StatusInternalServerError)>>
            /\ SetCookies(sess.w.sent) = {}
            /\ sess.committed = {}
            /\ sess.w.sent = defaultErrorFunc([NewWriter EXCEPT !.header =
                                 SelectSeq(sess.w.header, LAMBDA h : h.k = "X-App")]).sent
            /\ sess.status # "Modified" => sess.calls = 0 /\ sess.bw = NewBuffered)
    /\ [][/\ (sess.pc = "Load" /\ sess'.pc = "returned") =>
                sess'.w = defaultErrorFunc(NewWriter)
          /\ sess.pc = "returned" => sess' = sess]_vars

\* The commit failed after the handler had buffered a 404 and a body.
C23_Witness ==
    /\ ThroughErrorFunc
    /\ sess.status = "Modified"
    /\ sess.bw.code = StatusNotFound
    /\ sess.bw.buf = <<"a">>
    /\ sess.w.code = StatusInternalServerError

\* The frames of a list of middleware, outermost first.
MwFrames(mws) == [i \in 1..Len(mws) |-> Frame("mw", mws[i], <<>>)]

\* C24: the router-level middleware is wrapped around whatever handler
\* route resolution yields when the request is dispatched: once a handler
\* has run, be it a route's, the not-found or the method-not-allowed
\* handler, every pre-middleware, every middleware registered with Use
\* and the route's own middleware have been entered before it, in that
\* order; and Use changes the middleware list alone, so that a route
\* registered before it is executed inside the new list like any other.
C24_UseAppliesAtDispatch ==
    /\ [](\A w \in DOMAIN reqs :
             (InFlight(w) /\ Has(reqs[w].trace, "handler")) =>
                 Names(reqs[w].trace, "in") = Order(w))
    /\ [][middleware' # middleware =>
             /\ router' = router /\ routers' = routers /\ routes' = routes
             /\ \A e \in router :
                   LET c == [NewContext EXCEPT !.handler = e.h]
                   IN  ResolvedChain(c)' = MwFrames(middleware') \o e.h]_vars

\* A request for a path no route matches went through both router-level
\* middleware before the not-found handler ran.
C24_Witness ==
    /\ middleware = <<"A", "B">>
    /\ premiddleware = <<>>
    /\ router # {}
    /\ InFlight(1)
    /\ reqs[1].path = <<"nope">>
    /\ WithoutFind(reqs[1].trace) =
           <<Ev("in", "A"), Ev("in", "B"), Ev("handler", "NotFoundHandler")>>

RequestPaths == {<<"users", "42">>}

\* C25: Host can be called for any name at any time between requests, and
\* the call leaves name with a new, empty router, so that a request to
\* that host resolves to the not-found handler whatever routes the host
\* had; the default router and the routers of the other hosts are as they
\* were.
C25_HostInstallsEmptyRouter ==
    /\ [](\A h \in HostNames :
             Quiescent => ENABLED (Host(h) /\ routers'[h] = NewRouter))
    /\ [][\A h \in HostNames :
             Host(h) =>
                 /\ DOMAIN routers' = DOMAIN routers \cup {h}
                 /\ routers'[h] = NewRouter
                 /\ findRouter(h)' = h
                 /\ \A p \in RequestPaths :
                       Find(routers'[h], GET, p, NewContext).handler = NotFoundHandler
                 /\ router' = router
                 /\ \A g \in DOMAIN routers \ {h} : routers'[g] = routers[g]]_vars

\* Host was called again for a.test after the route had been added to it:
\* a request to a.test for /users/42 is answered by the not-found
\* handler, while b.test and the default router still have their routes.
C25_Witness ==
    /\ "a.test" \in DOMAIN routers /\ routers["a.test"] = NewRouter
    /\ <<GET, UsersId>> \in DOMAIN routes
    /\ routes[<<GET, UsersId>>].Name = "a.test"
    /\ "b.test" \in DOMAIN routers /\ routers["b.test"] # NewRouter
    /\ router # NewRouter
    /\ reqs[1].host = "a.test"
    /\ reqs[1].path = <<"users", "42">>
    /\ Has(reqs[1].trace, "handler")
    /\ \A i \in DOMAIN reqs[1].trace :
          reqs[1].trace[i].ev = "handler" =>
              reqs[1].trace[i].name = "NotFoundHandler"

====
